---- MODULE Spec2Model ----
(***************************************************************************)
(* Model of atlas-status (src/app.py): a Flask dashboard that reads the   *)
(* Docker daemon once per page view and renders the result.               *)
(*                                                                         *)
(* Conventions of the model                                                *)
(*   - Python None / a value is the sequence <<>> / <<v>>.                 *)
(*   - round(x, 2) is an integer number of hundredths, round(x, 1) an      *)
(*     integer number of tenths (12.5 is 125 tenths).                      *)
(*   - A daemon call ends "ok", or raises a docker.errors.DockerException  *)
(*     ("docker_exc"), or raises some other exception ("other_exc").       *)
(*   - Time is counted in half seconds, so that the truncation done by     *)
(*     int(delta.total_seconds()) is visible.                              *)
(***************************************************************************)
EXTENDS Integers, Sequences, FiniteSets, TLC

VARIABLES
    daemon,          \* daemon side: container id -> "running" | "exited" | "absent"
    changes,         \* number of container state changes the daemon has made
    pc,              \* position of the request handler index()
    client,          \* <<>> (None) or <<"client">>
    error,           \* <<>> (None) or <<text>>
    all_containers,  \* the list returned by client.containers.list(all=True)
    idx,             \* position of the for loop of get_container_data
    cur,             \* locals of the loop body for the container in hand
    running,         \* list `running` of get_container_data
    stopped,         \* list `stopped` of get_container_data
    docker_info,     \* result of get_docker_info, <<>> while not computed
    networks,        \* result of get_network_info, <<>> while not computed
    result,          \* what the request returned: "none", "error_page", "snapshot", "crash"
    calls,           \* daemon calls issued by this request, in order: [op, c, ok, seen]
    at_list,         \* the daemon state when containers.list was called, <<>> before
    at_info,         \* the daemon state when client.info was called, <<>> before
    invoked,         \* the components index() has called with `client`
    hist,            \* daemon states that occurred while the request ran
    budget,          \* how many more daemon calls of this run may fail
    fin,             \* argument of the helper under study (helper specifications)
    fout             \* its return value, <<>> while not called

reqVars == <<pc, client, error, all_containers, idx, cur, running, stopped,
             docker_info, networks, result, calls, invoked>>
envVars == <<daemon, changes, hist>>
ghostVars == <<at_list, at_info>>
funVars == <<fin, fout>>
vars == <<daemon, changes, pc, client, error, all_containers, idx, cur, running,
          stopped, docker_info, networks, result, calls, invoked, hist, budget,
          at_list, at_info, fin, fout>>

(***************************************************************************)
(* Bounds of the model.                                                    *)
(***************************************************************************)
NumContainers == 2     \* containers the daemon knows
MaxChanges == 2        \* container state changes during one request
MaxCounter == 3        \* cumulative CPU counters range over 0..MaxCounter
MaxCpus == 2           \* online_cpus ranges over 0..MaxCpus
MaxMemUnits == 3       \* memory figures range over 0..MaxMemUnits quarter MiB
MaxNets == 2           \* networks returned by one listing
MaxFaults == 1         \* daemon calls that fail while containers change state

None == <<>>
Some(v) == <<v>>

Outcomes == {"ok", "docker_exc", "other_exc"}

(***************************************************************************)
(* Python floats.  A positive double is [bits, e]: 53 bits, most           *)
(* significant first, the first of them 1, standing for the number they    *)
(* spell in binary times 2^e.  Every operation rounds its exact result to  *)
(* 53 bits, to nearest, ties to even.  Integers stay below 2^31.           *)
(***************************************************************************)
RECURSIVE IntBits(_)
IntBits(i) == IF i = 0 THEN <<>> ELSE Append(IntBits(i \div 2), i % 2)

Zeros(n) == [i \in 1..n |-> 0]

\* bits + 1; `carried` when that needs one bit more (the bits are then 1000...).
Increment(bits) ==
    IF \A i \in DOMAIN bits : bits[i] = 1
    THEN [bits |-> <<1>> \o Zeros(Len(bits) - 1), carried |-> TRUE]
    ELSE LET j == CHOOSE j \in DOMAIN bits :
                     bits[j] = 0 /\ \A i \in DOMAIN bits : i > j => bits[i] = 1
         IN  [bits |-> [i \in DOMAIN bits |->
                           IF i < j THEN bits[i] ELSE IF i = j THEN 1 ELSE 0],
              carried |-> FALSE]

\* The double nearest to bits * 2^e (plus, when `sticky`, a non-zero amount
\* below the last bit); bits has 53 bits or more.
Round53(bits, e, sticky) ==
    IF Len(bits) = 53 THEN [bits |-> bits, e |-> e]
    ELSE LET keep == SubSeq(bits, 1, 53)
             dropped == Len(bits) - 53
             guard == bits[54]
             rest == sticky \/ \E i \in 55..Len(bits) : bits[i] = 1
         IN  IF guard = 1 /\ (rest \/ keep[53] = 1)
             THEN LET up == Increment(keep)
                  IN  [bits |-> up.bits,
                       e |-> e + dropped + (IF up.carried THEN 1 ELSE 0)]
             ELSE [bits |-> keep, e |-> e + dropped]

\* The first n binary digits after the point of r / q, r < q, and what is left
\* of r behind them.
RECURSIVE Digits(_, _, _)
Digits(r, q, n) ==
    IF n = 1 THEN [bits |-> <<(2 * r) \div q>>, r |-> (2 * r) % q]
    ELSE LET front == Digits(r, q, n \div 2)
             back == Digits(front.r, q, n - n \div 2)
         IN  [bits |-> front.bits \o back.bits, r |-> back.r]

\* A binary numeral without its leading zeros; one of its bits is 1.
Significant(bits) ==
    LET first == CHOOSE j \in DOMAIN bits :
                     bits[j] = 1 /\ \A i \in DOMAIN bits : i < j => bits[i] = 0
    IN  SubSeq(bits, first, Len(bits))

\* The double p / q of two positive integers: the quotient to 54 significant
\* bits or more (fewer zeros follow the point than q has bits), rounded.
FloatDiv(p, q) ==
    LET n == 54 + Len(IntBits(q))
        d == Digits(p % q, q, n)
    IN  Round53(Significant(IntBits(p \div q) \o d.bits), -n, d.r # 0)

Reverse(bits) == [i \in 1..Len(bits) |-> bits[Len(bits) + 1 - i]]

\* low * k + carry in binary, exactly, as Len(low) bits and the carry out of
\* them; low is least significant bit first, k is a positive integer.
RECURSIVE Times(_, _, _)
Times(low, k, carry) ==
    IF Len(low) = 1
    THEN [bits |-> <<(low[1] * k + carry) % 2>>,
          carry |-> (low[1] * k + carry) \div 2]
    ELSE LET h == Len(low) \div 2
             front == Times(SubSeq(low, 1, h), k, carry)
             back == Times(SubSeq(low, h + 1, Len(low)), k, front.carry)
         IN  [bits |-> front.bits \o back.bits, carry |-> back.carry]

\* bits * k as a binary numeral without leading zeros.
Product(bits, k) ==
    LET t == Times(Reverse(bits), k, 0)
    IN  IntBits(t.carry) \o Reverse(t.bits)

\* The double x * k of a double and a positive integer.
FloatMul(x, k) == Round53(Product(x.bits, k), x.e, FALSE)

\* Order of two binary numerals without leading zeros: -1, 0 or 1.
CompareBits(a, b) ==
    IF Len(a) # Len(b) THEN (IF Len(a) < Len(b) THEN -1 ELSE 1)
    ELSE IF a = b THEN 0
    ELSE LET j == CHOOSE j \in DOMAIN a :
                     a[j] # b[j] /\ \A i \in DOMAIN a : i < j => a[i] = b[i]
         IN  IF a[j] < b[j] THEN -1 ELSE 1

\* Which side of the exact p * k * m / q the double (p / q) * k * m lies on:
\* -1 below, 0 on it, 1 above; p, q, k, m positive.
FloatError(p, q, k, m) ==
    LET x == FloatMul(FloatMul(FloatDiv(p, q), k), m)
    IN  CompareBits(Product(x.bits, q), IntBits(p * k * m) \o Zeros(-x.e))

\* Python's round((p / q) * k * m, ndigits) in units of 1/scale, scale being
\* 10^ndigits and q > 0: the multiple of 1/scale nearest to the double, which
\* the exact quotient decides unless it lies half way between two multiples.
PyRound(p, q, k, m, scale) ==
    LET n == p * k * m * scale
        lo == n \div q
        r == n % q
    IN  IF 2 * r < q THEN lo
        ELSE IF 2 * r > q THEN lo + 1
        ELSE LET side == IF p > 0 THEN FloatError(p, q, k, m)
                         ELSE -FloatError(-p, q, k, m)
             IN  IF side > 0 THEN lo + 1
                 ELSE IF side < 0 THEN lo
                 ELSE IF lo % 2 = 0 THEN lo ELSE lo + 1

\* Python's int() on a float: truncation toward zero of n/d, d > 0.
TruncDiv(n, d) == IF n >= 0 THEN n \div d ELSE -((-n) \div d)

Max(a, b) == IF a >= b THEN a ELSE b

MiB == 1024 * 1024

(***************************************************************************)
(* Outcome of running a piece of Python: it returns a value or it raises. *)
(* Catch(r, kinds, fallback) is  try: r  except <kinds>: return fallback.  *)
(***************************************************************************)
Exceptions == {"docker_exc", "other_exc"}
DockerExceptionOnly == {"docker_exc"}

Return(v) == [raised |-> FALSE, exc |-> "", value |-> Some(v)]
Raise(kind) == [raised |-> TRUE, exc |-> kind, value |-> None]
Catch(r, kinds, fallback) ==
    IF r.raised /\ r.exc \in kinds THEN Return(fallback) ELSE r

(***************************************************************************)
(* get_cpu_percent (src/app.py 27-56).  A stats read is a record           *)
(*   [outcome, wellformed, total_usage, system_cpu_usage,                  *)
(*    has_online_cpus, online_cpus]                                        *)
(* outcome is how container.stats(stream=False) ended; wellformed = FALSE  *)
(* stands for a reply without the cpu_stats keys, on which the             *)
(* subscripting raises KeyError.                                           *)
(***************************************************************************)
BadCpuRead(o, w) ==
    [outcome |-> o, wellformed |-> w, total_usage |-> 0, system_cpu_usage |-> 0,
     has_online_cpus |-> FALSE, online_cpus |-> 0]

CpuStatsReads ==
    {BadCpuRead("docker_exc", FALSE), BadCpuRead("other_exc", FALSE),
     BadCpuRead("ok", FALSE)}
    \cup
    [outcome : {"ok"}, wellformed : {TRUE}, total_usage : 0..MaxCounter,
     system_cpu_usage : 0..MaxCounter, has_online_cpus : {TRUE},
     online_cpus : 0..MaxCpus]
    \cup
    [outcome : {"ok"}, wellformed : {TRUE}, total_usage : 0..MaxCounter,
     system_cpu_usage : 0..MaxCounter, has_online_cpus : {FALSE},
     online_cpus : {0}]

\* Lines 42-54: the arithmetic on two well-formed reads, in hundredths.
CpuArith(stats1, stats2) ==
    LET cpu_delta == stats2.total_usage - stats1.total_usage
        system_delta == stats2.system_cpu_usage - stats1.system_cpu_usage
        num_cpus == IF stats2.has_online_cpus THEN stats2.online_cpus ELSE 1
    IN  IF system_delta > 0
        THEN PyRound(cpu_delta, system_delta, num_cpus, 100, 100)
        ELSE 0

\* Lines 38-54, the body of the try: the second read is made only when the
\* first returned.
CpuBody(stats1, stats2) ==
    IF stats1.outcome # "ok" THEN Raise(stats1.outcome)
    ELSE IF stats2.outcome # "ok" THEN Raise(stats2.outcome)
    ELSE IF ~stats1.wellformed \/ ~stats2.wellformed THEN Raise("other_exc")
    ELSE Return(Some(CpuArith(stats1, stats2)))

\* Lines 37-56: except Exception: return None.
get_cpu_percent(stats1, stats2) == Catch(CpuBody(stats1, stats2), Exceptions, None)

(***************************************************************************)
(* get_memory_stats (src/app.py 59-80).  A stats read is                  *)
(*   [outcome, numeric, usage, limit, cache] in bytes; numeric = FALSE     *)
(*   stands for a reply whose figures are not numbers (the arithmetic      *)
(*   raises TypeError).  Results are in tenths.                            *)
(***************************************************************************)
MemBytes == {k * (MiB \div 4) : k \in 0..MaxMemUnits}

BadMemRead(o) == [outcome |-> o, numeric |-> FALSE, usage |-> 0, limit |-> 0, cache |-> 0]

MemStatsReads ==
    {BadMemRead("docker_exc"), BadMemRead("other_exc"), BadMemRead("ok")}
    \cup
    [outcome : {"ok"}, numeric : {TRUE}, usage : MemBytes, limit : MemBytes,
     cache : MemBytes]

ZeroMemory == [used_mb |-> 0, limit_mb |-> 0, percent |-> 0]

\* Lines 72-78 with the clamp of line 72 left out.
MemArithNoClamp(stats) ==
    LET actual_usage == stats.usage - stats.cache
    IN  [used_mb  |-> PyRound(actual_usage, MiB, 1, 1, 10),
         limit_mb |-> PyRound(stats.limit, MiB, 1, 1, 10),
         percent  |-> IF stats.limit > 0
                      THEN PyRound(actual_usage, stats.limit, 1, 100, 10)
                      ELSE 0]

\* Lines 66-78 on a read that returned numbers.
MemArith(stats) ==
    LET actual_usage == Max(0, stats.usage - stats.cache)
    IN  [used_mb  |-> PyRound(actual_usage, MiB, 1, 1, 10),
         limit_mb |-> PyRound(stats.limit, MiB, 1, 1, 10),
         percent  |-> IF stats.limit > 0
                      THEN PyRound(actual_usage, stats.limit, 1, 100, 10)
                      ELSE 0]

\* Lines 65-78, the body of the try.
MemBody(stats) ==
    IF stats.outcome # "ok" THEN Raise(stats.outcome)
    ELSE IF ~stats.numeric THEN Raise("other_exc")
    ELSE Return(MemArith(stats))

\* Lines 64-80: except Exception: return the zero snapshot.
get_memory_stats(stats) == Catch(MemBody(stats), Exceptions, ZeroMemory)

(***************************************************************************)
(* format_uptime (src/app.py 83-106).  A StartedAt string is               *)
(*   [form, wall, zone]: form "iso" is a well-formed ISO date-time whose   *)
(*   date and time of day, counted in half seconds, is `wall` and whose    *)
(*   suffix is `zone` ("" when it has none); form "missing" is the empty   *)
(*   string and form "garbage" any text fromisoformat rejects.             *)
(* The result is [fmt, a, b]: "d_h" is f"{a}d {b}h", "h_m" is              *)
(* f"{a}h {b}m", "m" is f"{a}m", "unknown" is 'unknown'.                   *)
(***************************************************************************)
Zones == {"", "Z", "+00:00", "+01:00", "-05:00"}

\* started_at_str.replace('Z', '+00:00') on the suffix.
ReplaceZ(zone) == IF zone = "Z" THEN "+00:00" ELSE zone

\* The UTC offset a suffix denotes, in half seconds.
UtcOffset(zone) ==
    CASE zone = "+00:00" -> 0
      [] zone = "+01:00" -> 3600 * 2
      [] zone = "-05:00" -> -(5 * 3600 * 2)

\* datetime.fromisoformat: raises ValueError unless the text is well formed;
\* the datetime is naive when the text carries no offset.
fromisoformat(form, wall, zone) ==
    IF form # "iso" THEN Raise("other_exc")
    ELSE IF zone = "" THEN Return([wall |-> wall, aware |-> FALSE, utcoffset |-> 0])
    ELSE Return([wall |-> wall, aware |-> TRUE, utcoffset |-> UtcOffset(zone)])

Uptime(fmt, a, b) == [fmt |-> fmt, a |-> a, b |-> b]
UptimeUnknown == Uptime("unknown", 0, 0)

\* Lines 95-104 with the hours taken from the total instead of the rest of
\* the day.
BucketHoursOfTotal(total_seconds) ==
    LET days == total_seconds \div 86400
        hours == total_seconds \div 3600
        minutes == (total_seconds % 3600) \div 60
    IN  IF days > 0 THEN Uptime("d_h", days, hours)
        ELSE IF hours > 0 THEN Uptime("h_m", hours, minutes)
        ELSE Uptime("m", minutes, 0)

\* Lines 95-104 on the whole seconds elapsed.
Bucket(total_seconds) ==
    LET days == total_seconds \div 86400
        hours == (total_seconds % 86400) \div 3600
        minutes == (total_seconds % 3600) \div 60
    IN  IF days > 0 THEN Uptime("d_h", days, hours)
        ELSE IF hours > 0 THEN Uptime("h_m", hours, minutes)
        ELSE Uptime("m", minutes, 0)

\* Lines 90-104, the body of the try; now is datetime.now(timezone.utc) in
\* half seconds.  Subtracting a naive datetime from an aware one raises
\* TypeError.
UptimeBody(ts, now) ==
    LET parsed == fromisoformat(ts.form, ts.wall, ReplaceZ(ts.zone))
    IN  IF parsed.raised THEN parsed
        ELSE LET started == parsed.value[1]
             IN  IF ~started.aware THEN Raise("other_exc")
                 ELSE LET delta == now - (started.wall - started.utcoffset)
                          total_seconds == TruncDiv(delta, 2)
                      IN  Return(Bucket(total_seconds))

\* Lines 88-106: except Exception: return 'unknown'.
format_uptime(ts, now) == Catch(UptimeBody(ts, now), Exceptions, UptimeUnknown)

(***************************************************************************)
(* get_network_info (src/app.py 196-215).  A network is                    *)
(*   [name, driver, containers]: driver is None when attrs has no 'Driver' *)
(*   key; containers is [shape, members] with shape "missing" (no          *)
(*   'Containers' key), "null" (the key holds null, on which len raises    *)
(*   TypeError) or "dict".  A listing is [outcome, nets].                  *)
(***************************************************************************)
Net(name, driver, shape, members) ==
    [name |-> name, driver |-> driver,
     containers |-> [shape |-> shape, members |-> members]]

NetPool ==
    {Net("none", Some("null"), "dict", {}),
     Net("host", Some("host"), "null", {}),
     Net("bridge", Some("bridge"), "dict", {1}),
     Net("Host", Some("bridge"), "dict", {1, 2}),
     Net("NONE", Some("overlay"), "missing", {}),
     Net("atlas", None, "dict", {2}),
     Net("legacy", Some("bridge"), "null", {})}

SeqsUpTo(S, n) == UNION {[1..k -> S] : k \in 0..n}

Listings ==
    {[outcome |-> o, nets |-> <<>>] : o \in Exceptions}
    \cup {[outcome |-> "ok", nets |-> ns] : ns \in SeqsUpTo(NetPool, MaxNets)}

\* Line 205: net.name in ['none', 'host'].
SkipAnyCase(name) == name \in {"none", "host", "None", "Host", "NONE", "HOST"}

Skip(name) == name \in {"none", "host"}

\* Lines 207-212: the entry of one network that is kept.
NetEntry(net) ==
    IF net.containers.shape = "null" THEN Raise("other_exc")
    ELSE Return([name |-> net.name,
                 driver |-> IF net.driver = None THEN "unknown" ELSE net.driver[1],
                 containers |-> IF net.containers.shape = "missing" THEN 0
                                ELSE Cardinality(net.containers.members)])

\* Lines 203-213: the loop, from position i with `result` built so far.
RECURSIVE NetLoop(_, _, _)
NetLoop(nets, i, acc) ==
    IF i > Len(nets) THEN Return(acc)
    ELSE IF Skip(nets[i].name) THEN NetLoop(nets, i + 1, acc)
    ELSE LET e == NetEntry(nets[i])
         IN  IF e.raised THEN e
             ELSE NetLoop(nets, i + 1, Append(acc, e.value[1]))

\* Lines 201-213, the body of the try.
NetBody(listing) ==
    IF listing.outcome # "ok" THEN Raise(listing.outcome)
    ELSE NetLoop(listing.nets, 1, <<>>)

\* Lines 200-215: except Exception: return [].
get_network_info(listing) == Catch(NetBody(listing), Exceptions, <<>>)

(***************************************************************************)
(* The helpers on their own: fin is a call, fout its outcome.              *)
(***************************************************************************)
NowBase == 10 * 86400 * 2

\* Elapsed whole seconds the uptime inputs are spread over.
ElapsedCases ==
    {-86460, -3600, -60, -1, 0, 1, 59, 60, 2700, 3599, 3600, 7260, 86399, 86400,
     2 * 86400 + 3 * 3600 + 10 * 60, 5 * 86400 - 1}

Timestamps ==
    {[form |-> f, wall |-> 0, zone |-> ""] : f \in {"missing", "garbage"}}
    \cup
    {[form |-> "iso",
      wall |-> NowBase - 2 * e - h + (IF z \in {"", "Z"} THEN 0 ELSE UtcOffset(z)),
      zone |-> z] : e \in ElapsedCases, h \in 0..1, z \in Zones}

HelperCalls ==
    {[fn |-> "get_cpu_percent", stats1 |-> s1, stats2 |-> s2] :
        s1 \in CpuStatsReads, s2 \in CpuStatsReads}
    \cup {[fn |-> "get_memory_stats", stats |-> s] : s \in MemStatsReads}
    \cup {[fn |-> "format_uptime", ts |-> t, now |-> NowBase + h] :
            t \in Timestamps, h \in 0..1}
    \cup {[fn |-> "get_network_info", listing |-> l] : l \in Listings}

NoCall == [fn |-> "none"]

(***************************************************************************)
(* The daemon's content.  Containers are numbered; what the daemon holds   *)
(* about container c (image, log output, port bindings, start time, stats) *)
(* is fixed, its status is the variable `daemon`.                          *)
(***************************************************************************)
Containers == 1..NumContainers
Statuses == {"running", "exited", "paused"}

ShortId(c) == <<"id", c>>
Name(c) == <<"name", c>>

\* container.image: even-numbered containers run an untagged image.
ImageOf(c) ==
    [tags |-> IF c % 2 = 1 THEN << <<"tag", c>>, <<"alias", c>> >> ELSE <<>>,
     short_id |-> <<"sha256", c>>,
     Size |-> c * MiB + (MiB \div 2)]

\* container.logs(tail=20), decoded, as its lines; even-numbered containers
\* printed nothing but blank lines.
Blank == <<>>
LogOutput(c) ==
    IF c % 2 = 1 THEN << Blank, <<"line", c>>, Blank, <<"last", c>>, Blank >>
    ELSE << Blank, Blank >>

\* container.ports: container-side port -> host bindings (None when unbound).
PortBindings(c) ==
    << [container_port |-> [port |-> 80, proto |-> "/tcp"],
        host_bindings |-> Some(<< [HostPort |-> 8080 + c], [HostPort |-> 0] >>)],
       [container_port |-> [port |-> 53, proto |-> "/udp"],
        host_bindings |-> None],
       [container_port |-> [port |-> 132, proto |-> "/sctp"],
        host_bindings |-> Some(<< [HostPort |-> 9000] >>)] >>

\* container.attrs['State']['StartedAt'] and the time of the request.
RequestNow == NowBase
StartedAt(c) == [form |-> "iso", wall |-> RequestNow - 2 * (2700 * c * c * c * c), zone |-> "Z"]

\* The replies of the stats endpoint to the reads of one request.
CpuRead1(c) ==
    [outcome |-> "ok", wellformed |-> TRUE, total_usage |-> c, system_cpu_usage |-> 1,
     has_online_cpus |-> TRUE, online_cpus |-> 2]
CpuRead2(c) ==
    [outcome |-> "ok", wellformed |-> TRUE, total_usage |-> c + 1, system_cpu_usage |-> 4,
     has_online_cpus |-> TRUE, online_cpus |-> 2]
MemRead(c) ==
    [outcome |-> "ok", numeric |-> TRUE, usage |-> (c + 2) * (MiB \div 2),
     limit |-> 10 * MiB, cache |-> MiB \div 2]

Failing(read, outcome) == [read EXCEPT !.outcome = outcome]

DaemonNetworks ==
    << Net("bridge", Some("bridge"), "dict", {1}),
       Net("host", Some("host"), "dict", {}),
       Net("none", Some("null"), "dict", {}),
       Net("atlas", Some("bridge"), "dict", Containers) >>

\* client.info() and client.version() against daemon state d.
InfoReply(d) ==
    [ContainersRunning |-> Cardinality({c \in Containers : d[c] = "running"}),
     ContainersStopped |-> Cardinality({c \in Containers : d[c] = "exited"}),
     Images |-> NumContainers,
     Name |-> "zeus01"]
VersionReply == [Version |-> "24.0"]

\* client.containers.list(all=True) against daemon state d: the containers
\* that exist, each with the status it has at that moment.
ListReply(d) ==
    LET RECURSIVE Build(_)
        Build(c) ==
            IF c > NumContainers THEN <<>>
            ELSE IF d[c] = "absent" THEN Build(c + 1)
            ELSE <<[id |-> c, status |-> d[c]]>> \o Build(c + 1)
    IN  Build(1)

(***************************************************************************)
(* get_container_data, the loop body (src/app.py 122-173).                 *)
(***************************************************************************)
\* Line 133: container_port.replace('/tcp', '').replace('/udp', ''); any
\* other protocol suffix stays in the label.
StripProto(container_port) ==
    [port |-> container_port.port,
     proto |-> IF container_port.proto \in {"/tcp", "/udp"} THEN ""
               ELSE container_port.proto]

\* Lines 124-134: one entry per host binding with a non-empty HostPort (0
\* stands for '').
RECURSIVE BindingPorts(_, _)
BindingPorts(container_port, bindings) ==
    IF bindings = <<>> THEN <<>>
    ELSE (IF Head(bindings).HostPort # 0
          THEN <<[host |-> Head(bindings).HostPort,
                  container |-> StripProto(container_port)]>>
          ELSE <<>>)
         \o BindingPorts(container_port, Tail(bindings))

RECURSIVE Ports(_)
Ports(port_bindings) ==
    IF port_bindings = <<>> THEN <<>>
    ELSE (IF Head(port_bindings).host_bindings # None
          THEN BindingPorts(Head(port_bindings).container_port,
                            Head(port_bindings).host_bindings[1])
          ELSE <<>>)
         \o Ports(Tail(port_bindings))

UnknownImage == [image_name |-> <<"unknown", 0>>, image_size_mb |-> 0]

\* The image lookups of lines 138-140 in the order Python evaluates them, as
\* positions of the handler: container.image (for .id), client.images.get,
\* container.image (for the test of .tags), container.image (for .tags[0] or
\* .short_id).  container.image is a property that asks the daemon for the
\* image each time it is read, as client.images.get does.
ImageSteps == <<"image", "image_get", "image_tags", "image_name">>

\* All of them returning.
Returned == [k \in DOMAIN ImageSteps |-> "ok"]

\* Lines 138-140, the body of the try, `outcomes` telling how the lookups
\* made so far ended: the first that fails raises.
ImageBody(c, outcomes) ==
    IF \E i \in DOMAIN outcomes : outcomes[i] # "ok"
    THEN Raise(outcomes[CHOOSE i \in DOMAIN outcomes :
                            outcomes[i] # "ok" /\ \A j \in 1..(i - 1) : outcomes[j] = "ok"])
    ELSE LET image == ImageOf(c)
         IN  Return([image_name |-> IF image.tags # <<>> THEN image.tags[1]
                                    ELSE image.short_id,
                     image_size_mb |-> PyRound(image.Size, MiB, 1, 1, 10)])

\* Lines 137-143 with the handler catching DockerException only.
ImageInfoNarrowCatch(c, outcomes) ==
    Catch(ImageBody(c, outcomes), DockerExceptionOnly, UnknownImage)

\* Lines 137-143: except Exception: 'unknown', 0.
ImageInfo(c, outcomes) == Catch(ImageBody(c, outcomes), Exceptions, UnknownImage)

\* str.strip() on the decoded output: blank lines at both ends go.
RECURSIVE StripLeft(_)
StripLeft(lines) ==
    IF lines # <<>> /\ Head(lines) = Blank THEN StripLeft(Tail(lines)) ELSE lines
RECURSIVE StripRight(_)
StripRight(lines) ==
    IF lines # <<>> /\ lines[Len(lines)] = Blank
    THEN StripRight(SubSeq(lines, 1, Len(lines) - 1)) ELSE lines
Strip(lines) == StripRight(StripLeft(lines))

\* Lines 147-148, the body of the try.
LogBody(c, outcome) ==
    IF outcome # "ok" THEN Raise(outcome) ELSE Return(Strip(LogOutput(c)))

\* Lines 146-150: except Exception: [].
LogLines(c, outcome) == Catch(LogBody(c, outcome), Exceptions, <<>>)

\* Lines 152-160.
Data(container, image, log_lines) ==
    [id |-> ShortId(container.id),
     name |-> Name(container.id),
     status |-> container.status,
     image |-> image.image_name,
     image_size_mb |-> image.image_size_mb,
     ports |-> Ports(PortBindings(container.id)),
     log_lines |-> log_lines]

WithMetrics(data, uptime, cpu_percent, memory) ==
    [id |-> data.id, name |-> data.name, status |-> data.status, image |-> data.image,
     image_size_mb |-> data.image_size_mb, ports |-> data.ports,
     log_lines |-> data.log_lines,
     uptime |-> uptime, cpu_percent |-> cpu_percent, memory |-> memory]

UptimeDash == Uptime("dash", 0, 0)

\* Lines 170-172 with the zero snapshot in place of None.
StoppedRecordZeroMemory(data) == WithMetrics(data, UptimeDash, None, Some(ZeroMemory))

\* Lines 170-172: the record of a container that is not running.
StoppedRecord(data) == WithMetrics(data, UptimeDash, None, None)

\* Lines 163-167: the record of a running container.
RunningRecord(data, c, stats1, stats2, mem) ==
    WithMetrics(data,
                format_uptime(StartedAt(c), RequestNow).value[1],
                get_cpu_percent(stats1, stats2).value[1],
                Some(get_memory_stats(mem).value[1]))

\* Line 162.
IsRunning(container) == container.status = "running"

(***************************************************************************)
(* get_docker_client (src/app.py 11-22) and index (src/app.py 220-238).    *)
(***************************************************************************)
ErrorTexts == {"", "Error while fetching server API version"}

\* One daemon call in the log: `seen` is the state the daemon had the target
\* container in when a log or stats call reached it, "" for any other call.
Call(op, c, outcome, seen) == [op |-> op, c |-> c, ok |-> outcome = "ok", seen |-> seen]

\* Lines 18-20, the body of the try: ping is reached only when from_env
\* returned.
ClientBody(o_env, o_ping) ==
    IF o_env # "ok" THEN Raise(o_env)
    ELSE IF o_ping # "ok" THEN Raise(o_ping)
    ELSE Return([client |-> Some("client"), error |-> None])

\* Lines 17-22: except docker.errors.DockerException as e: return None, str(e).
get_docker_client(o_env, o_ping, text) ==
    Catch(ClientBody(o_env, o_ping), DockerExceptionOnly,
          [client |-> None, error |-> Some(text)])

\* Line 224: `if error:`; None and '' are both false.
Truthy(e) == e # None /\ e[1] # ""

\* Lines 117-120: the listing; a missing client raises AttributeError before
\* any call is made.
ListBody(cl, d, outcome) ==
    IF cl = None THEN Raise("other_exc")
    ELSE IF outcome # "ok" THEN Raise(outcome)
    ELSE Return([early |-> FALSE, all_containers |-> ListReply(d)])

EarlyReturn == [early |-> TRUE, all_containers |-> <<>>]

\* Lines 117-120: except docker.errors.DockerException: return [], [].
ListContainers(cl, d, outcome) ==
    Catch(ListBody(cl, d, outcome), DockerExceptionOnly, EarlyReturn)

EmptyInfo ==
    [empty |-> TRUE, docker_version |-> "", containers_running |-> 0,
     containers_stopped |-> 0, images |-> 0, host |-> ""]

\* Lines 184-191 with the two container counts exchanged.
InfoBodySwapped(info, o_version) ==
    IF o_version # "ok" THEN Raise(o_version)
    ELSE LET version == VersionReply
         IN  Return([empty |-> FALSE,
                     docker_version |-> version.Version,
                     containers_running |-> info.ContainersStopped,
                     containers_stopped |-> info.ContainersRunning,
                     images |-> info.Images,
                     host |-> info.Name])

\* Lines 184-191, the body of the try once client.info() has answered `info`.
InfoBody(info, o_version) ==
    IF o_version # "ok" THEN Raise(o_version)
    ELSE LET version == VersionReply
         IN  Return([empty |-> FALSE,
                     docker_version |-> version.Version,
                     containers_running |-> info.ContainersRunning,
                     containers_stopped |-> info.ContainersStopped,
                     images |-> info.Images,
                     host |-> info.Name])

\* Lines 182-193 from client.version() on: except Exception: return {}.
get_docker_info(info, o_version) ==
    Catch(InfoBody(info, o_version), Exceptions, EmptyInfo)

\* Line 183 failing: the same handler, return {}.
InfoFailure(o_info) == Catch(Raise(o_info), Exceptions, EmptyInfo)

NoInfo == [ContainersRunning |-> 0, ContainersStopped |-> 0, Images |-> 0, Name |-> ""]

NoCur == [lookups |-> <<>>, image |-> UnknownImage, data |-> <<>>,
          stats1 |-> BadCpuRead("ok", FALSE), stats2 |-> BadCpuRead("ok", FALSE),
          info |-> NoInfo]

\* How a daemon call of this run can end.
Out == IF budget > 0 THEN Outcomes ELSE {"ok"}

\* How a call that addresses container c can end: the daemon answers "no such
\* container" (docker.errors.NotFound) for one that is gone.
Reads(c) == IF daemon[c] = "absent" THEN {"docker_exc"} ELSE Out

\* A failure the daemon was free not to make counts against the budget.
Charge(failed) == budget' = IF failed THEN budget - 1 ELSE budget

\* What the stats endpoint can reply for a container in state `status`: its
\* figures or, once it has exited, a reply without them (no system_cpu_usage,
\* no memory figures).
NoMemRead == [outcome |-> "ok", numeric |-> TRUE, usage |-> 0, limit |-> 0, cache |-> 0]
CpuReplies(read, status) ==
    IF status = "exited" THEN {read, BadCpuRead("ok", FALSE)} ELSE {read}
MemReplies(read, status) ==
    IF status = "exited" THEN {read, NoMemRead} ELSE {read}

\* An exception that leaves index(): the request fails.
Crash ==
    /\ pc' = "done"
    /\ result' = "crash"

\* Where get_cpu_percent goes after its first read.
AfterCpu1Retry(outcome) == IF outcome = "ok" THEN "cpu2" ELSE "cpu1"

AfterCpu1(outcome) == IF outcome = "ok" THEN "cpu2" ELSE "mem"

\* Lines 222-225: client, error = get_docker_client(); if error: error page.
\* r is what get_docker_client did: it returned a pair or let an exception
\* through.
ClientReturn(r) ==
    IF r.raised
    THEN Crash /\ UNCHANGED <<client, error>>
    ELSE /\ client' = r.value[1].client
         /\ error' = r.value[1].error
         /\ IF Truthy(r.value[1].error)
            THEN pc' = "done" /\ result' = "error_page"
            ELSE pc' = "list" /\ result' = result

\* Line 18: client = docker.from_env(), the first round trip to the daemon.
\* When it returns, get_docker_client goes on to the ping.
FromEnv ==
    /\ pc = "start"
    /\ \E o_env \in Out, text \in ErrorTexts :
          /\ (o_env # "docker_exc" => text = "")
          /\ Charge(o_env # "ok")
          /\ IF o_env = "ok"
             THEN pc' = "ping" /\ UNCHANGED <<client, error, result>>
             ELSE ClientReturn(get_docker_client(o_env, "ok", text))
    /\ UNCHANGED <<all_containers, idx, cur, running, stopped, docker_info, networks,
                   calls, invoked>>
    /\ UNCHANGED <<envVars, ghostVars, funVars>>

\* Lines 19-22: client.ping(), the second round trip, then the return.
Ping ==
    /\ pc = "ping"
    /\ \E o_ping \in Out, text \in ErrorTexts :
          /\ (o_ping # "docker_exc" => text = "")
          /\ calls' = Append(calls, Call("ping", 0, o_ping, ""))
          /\ Charge(o_ping # "ok")
          /\ ClientReturn(get_docker_client("ok", o_ping, text))
    /\ UNCHANGED <<all_containers, idx, cur, running, stopped, docker_info, networks,
                   invoked>>
    /\ UNCHANGED <<envVars, ghostVars, funVars>>

\* Line 227 up to the start of the loop: get_container_data(client).
ListAll ==
    /\ pc = "list"
    /\ invoked' = invoked \cup {"get_container_data"}
    /\ \E o \in Out :
          /\ (client = None => o = "ok")
          /\ LET r == ListContainers(client, daemon, o)
             IN  /\ calls' = IF client = None THEN calls
                             ELSE Append(calls, Call("list", 0, o, ""))
                 /\ at_list' = IF client = None THEN at_list ELSE Some(daemon)
                 /\ Charge(o # "ok")
                 /\ IF r.raised
                    THEN Crash /\ UNCHANGED <<all_containers, idx>>
                    ELSE /\ all_containers' = r.value[1].all_containers
                         /\ idx' = 1
                         /\ pc' = IF r.value[1].all_containers = <<>>
                                  THEN "info" ELSE "image"
                         /\ result' = result
    /\ UNCHANGED <<client, error, cur, running, stopped, docker_info, networks>>
    /\ UNCHANGED <<envVars, at_info, funVars>>

\* The end of one pass of the loop.
NextContainer ==
    /\ idx' = idx + 1
    /\ cur' = NoCur
    /\ pc' = IF idx + 1 > Len(all_containers) THEN "info" ELSE "image"

\* Lines 137-143: lookup k of the image of the container in hand.  One that
\* fails ends the try block with the fallback; the last one completes it.
ImageStep(k) ==
    /\ pc = ImageSteps[k]
    /\ \E o \in Out :
          LET c == all_containers[idx].id
              lookups == Append(cur.lookups, o)
              r == ImageInfo(c, lookups)
          IN  /\ calls' = Append(calls, Call("image", c, o, ""))
              /\ Charge(o # "ok")
              /\ IF o = "ok" /\ k < Len(ImageSteps)
                 THEN /\ cur' = [cur EXCEPT !.lookups = lookups]
                      /\ pc' = ImageSteps[k + 1]
                      /\ result' = result
                 ELSE IF r.raised
                 THEN Crash /\ cur' = cur
                 ELSE /\ cur' = [cur EXCEPT !.lookups = lookups, !.image = r.value[1]]
                      /\ pc' = "logs"
                      /\ result' = result
    /\ UNCHANGED <<client, error, all_containers, idx, running, stopped, docker_info,
                   networks, invoked>>
    /\ UNCHANGED <<envVars, ghostVars, funVars>>

\* Line 138: container.image, read for its id.
ContainerImage == ImageStep(1)

\* Lines 138-139: client.images.get(...), read for its size.
ImagesGet == ImageStep(2)

\* Line 140: container.image, read for the test of its tags.
ContainerImageTags == ImageStep(3)

\* Line 140: container.image, read for tags[0] or short_id.
ContainerImageName == ImageStep(4)

\* Lines 146-162 and, for a container that is not running, 170-173.
LogFetch ==
    /\ pc = "logs"
    /\ \E o \in Reads(all_containers[idx].id) :
          LET container == all_containers[idx]
              r == LogLines(container.id, o)
          IN  /\ calls' = Append(calls, Call("logs", container.id, o, daemon[container.id]))
              /\ Charge(o # "ok" /\ daemon[container.id] # "absent")
              /\ IF r.raised
                 THEN Crash /\ UNCHANGED <<cur, idx, stopped>>
                 ELSE LET data == Data(container, cur.image, r.value[1])
                      IN  /\ result' = result
                          /\ IF IsRunning(container)
                             THEN /\ cur' = [cur EXCEPT !.data = Some(data)]
                                  /\ pc' = "cpu1"
                                  /\ UNCHANGED <<idx, stopped>>
                             ELSE /\ stopped' = Append(stopped, StoppedRecord(data))
                                  /\ NextContainer
    /\ UNCHANGED <<client, error, all_containers, running, docker_info, networks,
                   invoked>>
    /\ UNCHANGED <<envVars, ghostVars, funVars>>

\* Line 38: the first stats read of get_cpu_percent.
CpuSample1 ==
    /\ pc = "cpu1"
    /\ \E o \in Reads(all_containers[idx].id) :
          LET c == all_containers[idx].id
          IN  /\ calls' = Append(calls, Call("cpu_stats1", c, o, daemon[c]))
              /\ Charge(o # "ok" /\ daemon[c] # "absent")
              /\ \E reply \in CpuReplies(CpuRead1(c), daemon[c]) :
                    /\ (o # "ok" => reply = CpuRead1(c))
                    /\ cur' = [cur EXCEPT !.stats1 = Failing(reply, o)]
              /\ pc' = AfterCpu1(o)
    /\ UNCHANGED <<client, error, all_containers, idx, running, stopped, docker_info,
                   networks, result, invoked>>
    /\ UNCHANGED <<envVars, ghostVars, funVars>>

\* Lines 39-40: the pause and the second stats read.
CpuSample2 ==
    /\ pc = "cpu2"
    /\ \E o \in Reads(all_containers[idx].id) :
          LET c == all_containers[idx].id
          IN  /\ calls' = Append(calls, Call("cpu_stats2", c, o, daemon[c]))
              /\ Charge(o # "ok" /\ daemon[c] # "absent")
              /\ \E reply \in CpuReplies(CpuRead2(c), daemon[c]) :
                    /\ (o # "ok" => reply = CpuRead2(c))
                    /\ cur' = [cur EXCEPT !.stats2 = Failing(reply, o)]
              /\ pc' = "mem"
    /\ UNCHANGED <<client, error, all_containers, idx, running, stopped, docker_info,
                   networks, result, invoked>>
    /\ UNCHANGED <<envVars, ghostVars, funVars>>

\* Line 65, the stats read of get_memory_stats, and lines 163-168.
MemSample ==
    /\ pc = "mem"
    /\ \E o \in Reads(all_containers[idx].id) :
          LET c == all_containers[idx].id
          IN  /\ calls' = Append(calls, Call("mem_stats", c, o, daemon[c]))
              /\ Charge(o # "ok" /\ daemon[c] # "absent")
              /\ \E reply \in MemReplies(MemRead(c), daemon[c]) :
                    /\ (o # "ok" => reply = MemRead(c))
                    /\ running' = Append(running,
                                         RunningRecord(cur.data[1], c, cur.stats1,
                                                       cur.stats2, Failing(reply, o)))
              /\ NextContainer
    /\ UNCHANGED <<client, error, all_containers, stopped, docker_info, networks,
                   result, invoked>>
    /\ UNCHANGED <<envVars, ghostVars, funVars>>

\* Line 228, get_docker_info(client), up to line 183: client.info().
HostInfo ==
    /\ pc = "info"
    /\ invoked' = invoked \cup {"get_docker_info"}
    /\ \E o \in Out :
          /\ calls' = Append(calls, Call("info", 0, o, ""))
          /\ at_info' = Some(daemon)
          /\ Charge(o # "ok")
          /\ IF o = "ok"
             THEN /\ cur' = [cur EXCEPT !.info = InfoReply(daemon)]
                  /\ pc' = "version"
                  /\ UNCHANGED <<docker_info, result>>
             ELSE LET r == InfoFailure(o)
                  IN  /\ cur' = cur
                      /\ IF r.raised
                         THEN Crash /\ docker_info' = docker_info
                         ELSE /\ docker_info' = Some(r.value[1])
                              /\ pc' = "networks"
                              /\ result' = result
    /\ UNCHANGED <<client, error, all_containers, idx, running, stopped, networks>>
    /\ UNCHANGED <<envVars, at_list, funVars>>

\* Lines 184-193: client.version() and the dictionary built from both replies.
HostVersion ==
    /\ pc = "version"
    /\ \E o \in Out :
          LET r == get_docker_info(cur.info, o)
          IN  /\ calls' = Append(calls, Call("version", 0, o, ""))
              /\ Charge(o # "ok")
              /\ IF r.raised
                 THEN Crash /\ docker_info' = docker_info
                 ELSE /\ docker_info' = Some(r.value[1])
                      /\ pc' = "networks"
                      /\ result' = result
    /\ UNCHANGED <<client, error, all_containers, idx, cur, running, stopped, networks,
                   invoked>>
    /\ UNCHANGED <<envVars, ghostVars, funVars>>

\* Lines 229-238: get_network_info(client) and the rendering of the page.
NetworkInfo ==
    /\ pc = "networks"
    /\ invoked' = invoked \cup {"get_network_info"}
    /\ \E o \in Out :
          LET r == get_network_info([outcome |-> o, nets |-> DaemonNetworks])
          IN  /\ calls' = Append(calls, Call("networks", 0, o, ""))
              /\ Charge(o # "ok")
              /\ IF r.raised
                 THEN Crash /\ networks' = networks
                 ELSE /\ networks' = Some(r.value[1])
                      /\ pc' = "done"
                      /\ result' = "snapshot"
    /\ UNCHANGED <<client, error, all_containers, idx, cur, running, stopped,
                   docker_info>>
    /\ UNCHANGED <<envVars, ghostVars, funVars>>

\* The daemon side: a container starts, stops, is paused, resumed or removed,
\* or a removed one is created again, while the request is being served:
\* between any two of its daemon calls, from_env and ping included. A change
\* before the first call is another initial state.
Transitions(status) ==
    CASE status = "running" -> {"exited", "paused", "absent"}
      [] status = "exited" -> {"running", "absent"}
      [] status = "paused" -> {"running", "exited", "absent"}
      [] status = "absent" -> {"running", "exited"}

DaemonChange ==
    /\ pc \notin {"start", "done"}
    /\ changes < MaxChanges
    /\ \E c \in Containers :
          \E s \in Transitions(daemon[c]) :
             /\ daemon' = [daemon EXCEPT ![c] = s]
             /\ hist' = hist \cup {[daemon EXCEPT ![c] = s]}
    /\ changes' = changes + 1
    /\ UNCHANGED <<reqVars, budget, ghostVars, funVars>>

ReqInit ==
    /\ pc = "start"
    /\ client = None
    /\ error = None
    /\ all_containers = <<>>
    /\ idx = 0
    /\ cur = NoCur
    /\ running = <<>>
    /\ stopped = <<>>
    /\ docker_info = None
    /\ networks = None
    /\ result = "none"
    /\ calls = <<>>
    /\ invoked = {}
    /\ at_list = None
    /\ at_info = None

\* The most daemon calls one request makes: the probe, the listing, info,
\* version and the network listing, and per container four image lookups, the
\* log fetch and three stats reads.
AllCalls == 5 + 8 * NumContainers

\* One request against a daemon any of whose calls can fail and whose
\* containers keep their state.
Init ==
    /\ ReqInit
    /\ daemon \in [Containers -> Statuses \cup {"absent"}]
    /\ changes = 0
    /\ hist = {daemon}
    /\ budget = AllCalls
    /\ fin = NoCall
    /\ fout = None

Request ==
    \/ FromEnv
    \/ Ping
    \/ ListAll
    \/ ContainerImage
    \/ ImagesGet
    \/ ContainerImageTags
    \/ ContainerImageName
    \/ LogFetch
    \/ CpuSample1
    \/ CpuSample2
    \/ MemSample
    \/ HostInfo
    \/ HostVersion
    \/ NetworkInfo

Next == Request

Spec == Init /\ [][Next]_vars

\* One request against a daemon whose containers change state meanwhile and
\* whose calls can fail, up to MaxFaults of them besides those that fail
\* because their container is gone.
InitConc ==
    /\ ReqInit
    /\ daemon \in [Containers -> Statuses \cup {"absent"}]
    /\ changes = 0
    /\ hist = {daemon}
    /\ budget = MaxFaults
    /\ fin = NoCall
    /\ fout = None

NextConc == Request \/ DaemonChange

SpecConc == InitConc /\ [][NextConc]_vars

\* One call of one helper.
InitHelpers ==
    /\ ReqInit
    /\ daemon = [k \in Containers |-> "absent"]
    /\ changes = 0
    /\ hist = {daemon}
    /\ budget = 0
    /\ fin \in HelperCalls
    /\ fout = None

CallCpuPercent ==
    /\ fin.fn = "get_cpu_percent"
    /\ fout = None
    /\ fout' = Some(get_cpu_percent(fin.stats1, fin.stats2))
    /\ UNCHANGED <<reqVars, envVars, budget, ghostVars, fin>>

CallMemoryStats ==
    /\ fin.fn = "get_memory_stats"
    /\ fout = None
    /\ fout' = Some(get_memory_stats(fin.stats))
    /\ UNCHANGED <<reqVars, envVars, budget, ghostVars, fin>>

CallFormatUptime ==
    /\ fin.fn = "format_uptime"
    /\ fout = None
    /\ fout' = Some(format_uptime(fin.ts, fin.now))
    /\ UNCHANGED <<reqVars, envVars, budget, ghostVars, fin>>

CallNetworkInfo ==
    /\ fin.fn = "get_network_info"
    /\ fout = None
    /\ fout' = Some(get_network_info(fin.listing))
    /\ UNCHANGED <<reqVars, envVars, budget, ghostVars, fin>>

NextHelpers == CallCpuPercent \/ CallMemoryStats \/ CallFormatUptime \/ CallNetworkInfo

SpecHelpers == InitHelpers /\ [][NextHelpers]_vars

(***************************************************************************)
(* Properties.                                                             *)
(***************************************************************************)
CountCalls(op, c) ==
    Cardinality({i \in DOMAIN calls : calls[i].op = op /\ calls[i].c = c})
FailedCall(op, c) ==
    \E i \in DOMAIN calls : calls[i].op = op /\ calls[i].c = c /\ ~calls[i].ok
AnyFailed == \E i \in DOMAIN calls : ~calls[i].ok
Records == running \o stopped
Range(f) == {f[i] : i \in DOMAIN f}
SubFieldOps == {"image", "logs", "cpu_stats1", "cpu_stats2", "mem_stats"}
\* The containers whose pass of the loop has ended.
Collected == {all_containers[i] : i \in 1..(idx - 1)}
RecordsOf(container) == {i \in DOMAIN Records : Records[i].id = ShortId(container.id)}

\* C1: whenever get_docker_client returned no connection (it returned an error
\* text, empty or not), no downstream component is invoked and the request
\* ends with the connection-error page.
C1_ConnectFailureShortCircuits ==
    error # None =>
        /\ invoked = {}
        /\ pc = "done" => result = "error_page"

\* The record get_container_data builds for container c listed with status
\* `status` when none of its fetches fails.
NoFailureRecords ==
    [c \in Containers |->
        [status \in Statuses |->
            LET container == [id |-> c, status |-> status]
                data == Data(container, ImageInfo(c, Returned).value[1],
                             LogLines(c, "ok").value[1])
            IN  IF IsRunning(container)
                THEN RunningRecord(data, c, CpuRead1(c), CpuRead2(c), MemRead(c))
                ELSE StoppedRecord(data)]]
NoFailureRecord(container) == NoFailureRecords[container.id][container.status]

\* C2: a failing sub-field fetch (image, logs, either CPU stats read, memory
\* stats read) never ends the request, every container whose pass of the loop
\* has ended has its record, and that record differs from the one it has when
\* nothing fails in exactly the failed fields, which hold their fallbacks:
\* image 'unknown' with size 0, no log lines, null CPU, the zero memory
\* snapshot.  A container none of whose fetches failed has the no-failure
\* record.
C2_FailureIsolation ==
    /\ \A i \in DOMAIN calls :
          (calls[i].op \in SubFieldOps /\ ~calls[i].ok)
              => ~(result = "crash" /\ i = Len(calls))
    /\ \A container \in Collected :
          /\ Cardinality(RecordsOf(container)) = 1
          /\ \A i \in RecordsOf(container) :
                LET r == Records[i]
                    c == container.id
                    full == NoFailureRecord(container)
                IN  /\ r.id = full.id /\ r.name = full.name /\ r.status = full.status
                    /\ r.ports = full.ports /\ r.uptime = full.uptime
                    /\ IF FailedCall("image", c)
                       THEN r.image = <<"unknown", 0>> /\ r.image_size_mb = 0
                       ELSE r.image = full.image /\ r.image_size_mb = full.image_size_mb
                    /\ IF FailedCall("logs", c)
                       THEN r.log_lines = <<>>
                       ELSE r.log_lines = full.log_lines
                    /\ IF FailedCall("cpu_stats1", c) \/ FailedCall("cpu_stats2", c)
                       THEN r.cpu_percent = None
                       ELSE r.cpu_percent = full.cpu_percent
                    /\ IF FailedCall("mem_stats", c)
                       THEN r.memory = Some(ZeroMemory)
                       ELSE r.memory = full.memory
                    /\ (\A op \in SubFieldOps : ~FailedCall(op, c)) => r = full

\* A snapshot in which one running container lost its image, its logs, its
\* CPU value and its memory figures while another container lost nothing.
C2_Witness ==
    /\ pc = "done" /\ result = "snapshot"
    /\ \E x \in Collected, y \in Collected :
          /\ x.id # y.id
          /\ FailedCall("image", x.id) /\ FailedCall("logs", x.id)
          /\ FailedCall("cpu_stats2", x.id) /\ FailedCall("mem_stats", x.id)
          /\ \A op \in SubFieldOps : ~FailedCall(op, y.id)
          /\ RecordsOf(x) # {} /\ RecordsOf(y) # {}

\* C3: if the list-all call fails, in whatever way, get_container_data returns
\* two empty lists and the request goes on to a snapshot.
C3_ListFailureGivesEmptyLists ==
    FailedCall("list", 0) =>
        /\ running = <<>> /\ stopped = <<>>
        /\ result # "crash"
        /\ pc = "done" => result = "snapshot"

\* What C4 states of the two lists, the memory sentinel of a stopped record
\* being `sentinel`.
Partition(sentinel) ==
    /\ idx >= 1 => Len(running) + Len(stopped) = idx - 1
    /\ {r.id : r \in Range(Records)} = {ShortId(container.id) : container \in Collected}
    /\ \A container \in Collected :
          /\ Cardinality(RecordsOf(container)) = 1
          /\ \A i \in RecordsOf(container) :
                /\ Records[i].status = container.status
                /\ (i <= Len(running)) <=> (container.status = "running")
    /\ \A i \in DOMAIN stopped :
          /\ stopped[i].status # "running"
          /\ stopped[i].uptime = UptimeDash
          /\ stopped[i].cpu_percent = None
          /\ stopped[i].memory = sentinel
    /\ \A i \in DOMAIN running :
          /\ running[i].status = "running"
          /\ running[i].uptime.fmt \in {"d_h", "h_m", "m", "unknown"}
          /\ running[i].memory # None
          /\ \A container \in Collected :
                running[i].id = ShortId(container.id) =>
                    /\ running[i].uptime
                         = format_uptime(StartedAt(container.id), RequestNow).value[1]
                    /\ (running[i].cpu_percent = None)
                         <=> (\/ FailedCall("cpu_stats1", container.id)
                              \/ FailedCall("cpu_stats2", container.id))

C5_CpuNeverNegative ==
    (fin.fn = "get_cpu_percent" /\ fout # None) =>
        /\ ~fout[1].raised
        /\ fout[1].value[1] # None => fout[1].value[1][1] >= 0
        /\ (/\ fin.stats1.outcome = "ok" /\ fin.stats1.wellformed
            /\ fin.stats2.outcome = "ok" /\ fin.stats2.wellformed
            /\ fin.stats2.system_cpu_usage - fin.stats1.system_cpu_usage <= 0)
              => fout[1].value[1] = Some(0)

\* C6: get_memory_stats never raises; used_mb is never negative; percent is 0
\* whenever the reported limit is 0; a failed or unusable read gives the zero
\* snapshot.
C6_MemoryNormalised ==
    (fin.fn = "get_memory_stats" /\ fout # None) =>
        /\ ~fout[1].raised
        /\ fout[1].value[1].used_mb >= 0
        /\ fin.stats.limit = 0 => fout[1].value[1].percent = 0
        /\ (fin.stats.outcome # "ok" \/ ~fin.stats.numeric)
              => fout[1].value[1] = ZeroMemory
        /\ (fin.stats.outcome = "ok" /\ fin.stats.numeric /\ fin.stats.cache >= fin.stats.usage)
              => fout[1].value[1].used_mb = 0 /\ fout[1].value[1].percent = 0

\* A read whose cache figure exceeds its usage figure, normalised.
C6_Witness ==
    /\ fin.fn = "get_memory_stats" /\ fout # None
    /\ fin.stats.outcome = "ok" /\ fin.stats.numeric
    /\ fin.stats.cache > fin.stats.usage /\ fin.stats.limit > 0

\* C7 as claimed: in a request that ends with a snapshot the probe, list-all,
\* info, version and the network listing were each issued exactly once, per
\* listed container the image lookup and the log fetch exactly once, and per
\* running container exactly two CPU stats reads and one memory stats read.
C7_ExactlyOnce ==
    (pc = "done" /\ result = "snapshot") =>
        /\ \A op \in {"ping", "list", "info", "version", "networks"} :
              CountCalls(op, 0) = 1
        /\ \A container \in Range(all_containers) :
              /\ CountCalls("image", container.id) = 1
              /\ CountCalls("logs", container.id) = 1
              /\ container.status = "running" =>
                    /\ CountCalls("cpu_stats1", container.id)
                         + CountCalls("cpu_stats2", container.id) = 2
                    /\ CountCalls("mem_stats", container.id) = 1

\* C7 as amended: a failed call is never issued again, and no call other than
\* the image lookup is issued twice; the image of a container is looked up at
\* most four times, a lookup being made only when the one before it returned;
\* version is issued only after info returned and the second CPU read only
\* after the first returned; a container that is not running gets no stats
\* read; and in a request that ends with a snapshot the probe, list-all, info
\* and the network listing were issued exactly once, version exactly once when
\* info returned and not at all otherwise, per listed container the log fetch
\* exactly once and the image lookup four times when every lookup returned,
\* per running container the first CPU read and the memory read exactly once
\* and the second CPU read exactly once when the first returned and not at all
\* otherwise.
C7_NoRetry ==
    /\ \A i \in DOMAIN calls, j \in DOMAIN calls :
          (i < j /\ calls[i].op = calls[j].op /\ calls[i].c = calls[j].c)
              => (calls[i].ok /\ calls[i].op = "image")
    /\ \A c \in Containers : CountCalls("image", c) <= 4
    /\ CountCalls("version", 0) = 1 => (CountCalls("info", 0) = 1 /\ ~FailedCall("info", 0))
    /\ \A c \in Containers :
          /\ CountCalls("cpu_stats2", c) = 1
                => (CountCalls("cpu_stats1", c) = 1 /\ ~FailedCall("cpu_stats1", c))
          /\ (\A i \in DOMAIN all_containers :
                 all_containers[i].id = c => all_containers[i].status # "running")
                => \A op \in {"cpu_stats1", "cpu_stats2", "mem_stats"} : CountCalls(op, c) = 0
    /\ (pc = "done" /\ result = "snapshot") =>
          /\ \A op \in {"ping", "list", "info", "networks"} : CountCalls(op, 0) = 1
          /\ CountCalls("version", 0) = (IF FailedCall("info", 0) THEN 0 ELSE 1)
          /\ \A container \in Range(all_containers) :
                /\ CountCalls("image", container.id) >= 1
                /\ ~FailedCall("image", container.id)
                      => CountCalls("image", container.id) = 4
                /\ CountCalls("logs", container.id) = 1
                /\ container.status = "running" =>
                      /\ CountCalls("cpu_stats1", container.id) = 1
                      /\ CountCalls("cpu_stats2", container.id)
                           = (IF FailedCall("cpu_stats1", container.id) THEN 0 ELSE 1)
                      /\ CountCalls("mem_stats", container.id) = 1

\* A snapshot of a request in which info() and a first CPU read failed while
\* another running container had both its CPU reads, and in which one image
\* was looked up four times and the lookups of another stopped at the second.
C7_Witness ==
    /\ pc = "done" /\ result = "snapshot"
    /\ FailedCall("info", 0)
    /\ \E c \in Containers : FailedCall("cpu_stats1", c)
    /\ \E c \in Containers : CountCalls("cpu_stats2", c) = 1
    /\ \E c \in Containers : CountCalls("image", c) = 4 /\ ~FailedCall("image", c)
    /\ \E c \in Containers : CountCalls("image", c) = 2 /\ FailedCall("image", c)

\* Letter case folded, for the names the listings use.
Lower(name) ==
    CASE name = "Host" -> "host"
      [] name = "NONE" -> "none"
      [] OTHER -> name

\* The entries get_network_info is to return for a listing that was read
\* without error, `skipped` telling which names are left out.
ExpectedEntries(nets, skipped(_)) ==
    LET kept == SelectSeq(nets, LAMBDA net : ~skipped(net.name))
    IN  [i \in DOMAIN kept |->
            [name |-> kept[i].name,
             driver |-> IF kept[i].driver = None THEN "unknown" ELSE kept[i].driver[1],
             containers |-> IF kept[i].containers.shape = "dict"
                            THEN Cardinality(kept[i].containers.members) ELSE 0]]

SkippedExact(name) == name = "none" \/ name = "host"
SkippedAnyCase(name) == Lower(name) = "none" \/ Lower(name) = "host"
Unreadable(nets, skipped(_)) ==
    \E i \in DOMAIN nets : ~skipped(nets[i].name) /\ nets[i].containers.shape = "null"

\* C8 as claimed: the result has one entry, with driver and container count,
\* per network whose name is not 'none' or 'host' in any letter case.
C8_SkipsAnyCase ==
    (/\ fin.fn = "get_network_info" /\ fout # None
     /\ fin.listing.outcome = "ok"
     /\ ~Unreadable(fin.listing.nets, SkippedExact))
        => fout[1].value[1] = ExpectedEntries(fin.listing.nets, SkippedAnyCase)

\* C8 as amended: get_network_info never raises; when the listing is read
\* without error the result has one entry, in order, with driver and container
\* count, per network whose name is not exactly 'none' or 'host' (a name that
\* differs in letter case, 'Host' or 'NONE', is kept); when the listing call
\* fails or a kept network's member table is null the result is empty.
C8_SkipsExactNames ==
    (fin.fn = "get_network_info" /\ fout # None) =>
        /\ ~fout[1].raised
        /\ fout[1].value[1]
             = IF fin.listing.outcome = "ok" /\ ~Unreadable(fin.listing.nets, SkippedExact)
               THEN ExpectedEntries(fin.listing.nets, SkippedExact)
               ELSE <<>>

\* A listing with 'host' and 'Host' of which one entry is returned.
C8_Witness ==
    /\ fin.fn = "get_network_info" /\ fout # None
    /\ fin.listing.outcome = "ok"
    /\ {"host", "Host"} \subseteq {net.name : net \in Range(fin.listing.nets)}
    /\ Len(fout[1].value[1]) = 1

\* The whole seconds from the instant a timestamp with an offset denotes to now.
ElapsedSeconds(ts, now) ==
    TruncDiv(now - (ts.wall - (IF ts.zone = "Z" THEN 0 ELSE UtcOffset(ts.zone))), 2)

\* C9: format_uptime never raises; for a timestamp that denotes an instant it
\* returns '{days}d {hours}h' when a day or more has elapsed, otherwise
\* '{hours}h {minutes}m' when an hour or more has, otherwise '{minutes}m' (for
\* a start in the future the units are Python's floor quotients); 2 days 3
\* hours 10 minutes give '2d 3h' and 45 minutes '45m'; a missing or unparseable
\* timestamp, and one without offset, gives 'unknown'.
C9_UptimeBuckets ==
    (fin.fn = "format_uptime" /\ fout # None) =>
        LET ts == fin.ts
            out == fout[1].value[1]
        IN  /\ ~fout[1].raised
            /\ (ts.form # "iso" \/ ts.zone = "") => out = UptimeUnknown
            /\ (ts.form = "iso" /\ ts.zone # "") =>
                  LET t == ElapsedSeconds(ts, fin.now)
                      d == t \div 86400
                      h == t \div 3600
                      m == t \div 60
                  IN  /\ t >= 86400 => out = Uptime("d_h", d, h - 24 * d)
                      /\ (t >= 3600 /\ t < 86400) => out = Uptime("h_m", h, m - 60 * h)
                      /\ (t >= 0 /\ t < 3600) => out = Uptime("m", m, 0)
                      /\ t < 0 =>
                            out = IF h - 24 * d > 0
                                  THEN Uptime("h_m", h - 24 * d, m - 60 * h)
                                  ELSE Uptime("m", m - 60 * h, 0)
                      /\ t = 2 * 86400 + 3 * 3600 + 10 * 60 => out = Uptime("d_h", 2, 3)
                      /\ t = 45 * 60 => out = Uptime("m", 45, 0)

\* A start 2 days 3 hours 10 minutes before now, formatted.
C9_Witness ==
    /\ fin.fn = "format_uptime" /\ fout # None
    /\ fin.ts.form = "iso" /\ fin.ts.zone = "+01:00"
    /\ ElapsedSeconds(fin.ts, fin.now) = 2 * 86400 + 3 * 3600 + 10 * 60
    /\ fout[1].value[1].fmt = "d_h"

\* The two lists are the running and the other containers of daemon state s.
ListsAgree(s) ==
    /\ {r.id : r \in Range(running)} = {ShortId(c) : c \in {k \in Containers : s[k] = "running"}}
    /\ {r.id : r \in Range(stopped)}
         = {ShortId(c) : c \in {k \in Containers : s[k] \notin {"running", "absent"}}}
    /\ \A r \in Range(Records) : \A c \in Containers : r.id = ShortId(c) => r.status = s[c]

\* The host summary counts are those of daemon state s.
HostAgrees(s) ==
    /\ docker_info # None
    /\ ~docker_info[1].empty
    /\ docker_info[1].containers_running = Cardinality({c \in Containers : s[c] = "running"})
    /\ docker_info[1].containers_stopped = Cardinality({c \in Containers : s[c] = "exited"})

\* C10 as claimed: a snapshot built without any failed call agrees, in its two
\* lists and its host summary counts, with a single daemon state that occurred
\* during the request.
C10_SnapshotConsistent ==
    (pc = "done" /\ result = "snapshot" /\ ~AnyFailed) =>
        \E s \in hist : ListsAgree(s) /\ HostAgrees(s)

\* The states the daemon had container c in when the calls `ops` reached it.
SeenBy(ops, c) == {calls[i].seen : i \in {k \in DOMAIN calls : calls[k].op \in ops /\ calls[k].c = c}}

\* C10 as amended: a snapshot is consistent read by read.  When the list-all
\* call returned, the two lists agree with the daemon state at that call, and
\* when it failed they are empty; when info and version returned, the host
\* summary counts agree with the daemon state at the info call, and when either
\* failed the host summary is empty; a record of the running list whose
\* container was gone when a CPU read reached it has null CPU, and one whose
\* container was gone when the memory read reached it has the zero memory
\* snapshot; and when the daemon state at the info call is the one at the
\* list-all call, the lists and the host summary counts agree with that one
\* state.
C10_EachReadConsistent ==
    (pc = "done" /\ result = "snapshot") =>
        /\ IF FailedCall("list", 0)
           THEN running = <<>> /\ stopped = <<>>
           ELSE at_list # None /\ ListsAgree(at_list[1])
        /\ IF FailedCall("info", 0) \/ FailedCall("version", 0)
           THEN docker_info = Some(EmptyInfo)
           ELSE at_info # None /\ HostAgrees(at_info[1])
        /\ \A c \in Containers : \A r \in Range(running) :
              r.id = ShortId(c) =>
                  /\ "absent" \in SeenBy({"cpu_stats1", "cpu_stats2"}, c)
                        => r.cpu_percent = None
                  /\ "absent" \in SeenBy({"mem_stats"}, c)
                        => r.memory = Some(ZeroMemory)
        /\ (/\ ~FailedCall("list", 0) /\ ~FailedCall("info", 0) /\ ~FailedCall("version", 0)
            /\ at_list = at_info)
              => ListsAgree(at_list[1]) /\ HostAgrees(at_list[1])

\* A snapshot whose lists and host summary come from different daemon states
\* and agree with no single one: a container of the running list was removed
\* before its stats were read, and the host summary no longer counts it.
C10_Witness ==
    /\ pc = "done" /\ result = "snapshot" /\ changes > 0
    /\ ~FailedCall("list", 0) /\ ~FailedCall("info", 0) /\ ~FailedCall("version", 0)
    /\ at_list # at_info
    /\ \E c \in Containers : \E r \in Range(running) :
          /\ r.id = ShortId(c)
          /\ "absent" \in SeenBy({"mem_stats"}, c)
          /\ r.memory = Some(ZeroMemory)
    /\ ~\E s \in hist : ListsAgree(s) /\ HostAgrees(s)

====
